---- MODULE Spec2Model ----
(***************************************************************************)
(* PWC-Net_pytorch, main.py: command line validation and dispatch (main),  *)
(* the training loop (train), the inference pipeline (pred) and the        *)
(* ground-truth flow pyramid built inside a training step.                 *)
(*                                                                         *)
(* Tensors are modelled by their shapes: a flow field or an image is the   *)
(* pair <<height, width>>, a pyramid is a sequence of such pairs, a batch  *)
(* is its sample count.  The network, the losses, the dataset and the      *)
(* logger are external; only what main.py does with them is modelled.      *)
(***************************************************************************)
EXTENDS Integers, Sequences, FiniteSets, TLC

\* ------------------------------------------------------------------ bounds
MaxSteps == 4       \* args.total_step ranges over 0..MaxSteps
MaxEpochLen == 2    \* len(train_loader) ranges over 1..MaxEpochLen
MaxInterval == 2    \* summary_interval, checkpoint_interval in 1..MaxInterval
MaxLevels == 2      \* num_levels, len(weights), len(lv_chs), model depth
MaxBatch == 2       \* args.batch_size; a delivered batch holds 1..MaxBatch samples
MaxDim == 4         \* pred: image and crop heights and widths range over 1..MaxDim
MaxFlowDim == 8     \* pyramid builder: flow height and width range over 1..MaxFlowDim

VARIABLES
    pc,               \* position of the process
    err,              \* the exception that ended the process ("" if none)
    args,             \* the parsed command line (argparse namespace)
    iter_per_epoch,   \* len(train_loader)
    model_levels,     \* depth of the pyramid the external Net returns
    step,             \* loop variable of `for step in range(1, total_step + 1)`
    iterations,       \* loop bodies entered so far
    data_iter,        \* batches the current epoch iterator has delivered
    retired,          \* delivered counts of the iterators already replaced
    batch,            \* sample count of the batch pulled last (0: none yet)
    forwards,         \* calls of the model's forward pass
    updates,          \* calls of optimizer.step()
    skipped,          \* batches discarded by the batch-size gate
    summaries,        \* <<step, levels reported>> of every summary emitted
    checkpoints,      \* steps whose checkpoint file was written
    flow_gt_pyramid,  \* ground-truth pyramid built last (shapes, index 1 first)
    images,           \* pred: shapes of the two frames read from disk
    cropper,          \* pred: the StaticCenterCrop instance (th, tw, h, w)
    crops,            \* pred: per frame, the region the cropper cut out
    resized_by        \* pred: which resize branch ran

vars == <<pc, err, args, iter_per_epoch, model_levels, step, iterations,
          data_iter, retired, batch, forwards, updates, skipped, summaries,
          checkpoints, flow_gt_pyramid, images, cropper, crops, resized_by>>

trainVars == <<step, iterations, data_iter, retired, batch, updates, skipped,
               summaries, checkpoints, flow_gt_pyramid>>

predVars == <<images, cropper, crops, resized_by>>

None == "None"

Min2(a, b) == IF a < b THEN a ELSE b

Max2(a, b) == IF a < b THEN b ELSE a

\* ---------------------------------------------------------- command line
Modes == {"train", "pred", "eval", None}

\* the names the train branch of the argument check accepts, one it does
\* not, and the option left out
Datasets == {"FlyingChairs", "KITTI", "Sintel", None}

ValidDatasets == {"FlyingChairs", "FlyingThings", "SintelFinal", "SintelClean", "KITTI"}

LossModes == {"L1", "L2", "PyramidL1", "PyramidL2"}

\* crop shapes of the training data (the shape of every flow_gt)
FlowShapes == {<<1, 2>>, <<4, 4>>, <<5, 6>>}

\* The branch of the argument check that is taken: the subparsers are named
\* train, pred and eval, the check compares with 'train', 'pred' and 'test'.
CheckBranch(name) ==
    IF name = "train" THEN "train"
    ELSE IF name = "pred" THEN "pred"
    ELSE IF name = "test" THEN "test"
    ELSE "else"

\* The outcome of the argument check: "" when every assert of the branch
\* passes, otherwise the exception raised.
CheckArgs(a) ==
    LET branch == CheckBranch(a.subparser_name) IN
    IF branch = "train" THEN
        IF ~(a.weights_len = a.lv_chs_len /\ a.lv_chs_len = a.num_levels)
        THEN "AssertionError"
        ELSE IF a.dataset \notin ValidDatasets THEN "AssertionError"
        ELSE ""
    ELSE IF branch = "pred" THEN
        IF a.input = None THEN "AssertionError"
        ELSE IF a.load = None THEN "AssertionError"
        ELSE ""
    ELSE IF branch = "test" THEN
        \* args.train and args.predict are not attributes of the namespace
        "AttributeError"
    ELSE "RuntimeError"

\* set_defaults(func = ...) of the three subparsers
Handler(name) ==
    IF name = "train" THEN "train"
    ELSE IF name = "pred" THEN "pred"
    ELSE "test"

\* main(): check args, then args.func(args)
Main ==
    /\ pc = "main"
    /\ LET e == CheckArgs(args) IN
       IF e # ""
       THEN /\ pc' = "startup_error"
            /\ err' = e
       ELSE /\ pc' = Handler(args.subparser_name)
            /\ err' = ""
    /\ UNCHANGED <<args, iter_per_epoch, model_levels, forwards, trainVars, predVars>>

\* ------------------------------------------------------------- train()
\* Whether the external dataset constructor accepts the crop/resize options:
\* it is handed both resize options as they are, and what it does with both
\* set is not visible from main.py.
DatasetOutcomes(a) ==
    IF a.resize_shape # None /\ a.resize_scale # None
    THEN {"ok", "raise"}
    ELSE {"ok"}

\* train(), up to the loop: model, datasets, loaders, logger, the first
\* epoch iterator, the optimizer
TrainEnter ==
    /\ pc = "train"
    /\ \E o \in DatasetOutcomes(args) :
         IF o = "raise"
         THEN /\ pc' = "error"
              /\ err' = "DatasetError"
              /\ UNCHANGED data_iter
         ELSE /\ pc' = "running"
              /\ err' = ""
              /\ data_iter' = 0
    /\ UNCHANGED <<args, iter_per_epoch, model_levels, forwards, step, iterations,
                   retired, batch, updates, skipped, summaries, checkpoints,
                   flow_gt_pyramid, predVars>>

\* range(1, total_step + 1) still yields `s`
LoopContinues_OffByOne(s, total) == s < total

LoopContinues(s, total) == s <= total

\* `if (step) % iter_per_epoch == 0: data_iter = iter(train_loader)`
NeedsReset_LongEpoch(s, ipe) == s % (ipe + 1) = 0

NeedsReset(s, ipe) == s % ipe = 0

\* `if src_img.size(0) != args.batch_size: continue`
BatchGate_Open(size, batch_size) == FALSE

BatchGate(size, batch_size) == size # batch_size

\* F.avg_pool2d(x, 2): kernel 2, stride 2, no padding, remainder truncated
AvgPool2d(x) == <<x[1] \div 2, x[2] \div 2>>

\* avg_pool2d raises when its output would be empty
PoolFails(y) == y[1] < 1 \/ y[2] < 1

\* flow_gt_pyramid.insert(0, x)
Insert0_Append(pyr, x) == Append(pyr, x)

Insert0(pyr, x) == <<x>> \o pyr

\* the loop `for l in range(num_levels)`: n poolings still to do
RECURSIVE PoolLoop(_, _, _)
PoolLoop(x, pyr, n) ==
    IF n = 0 THEN [ok |-> TRUE, levels |-> pyr]
    ELSE LET y == AvgPool2d(x) IN
         IF PoolFails(y) THEN [ok |-> FALSE, levels |-> pyr]
         ELSE PoolLoop(y, Insert0(pyr, y), n - 1)

\* Build Groundtruth Pyramid
BuildPyramid(flow_gt, num_levels) == PoolLoop(flow_gt, <<>>, num_levels)

\* The loss computation.  L1 and L2 compare output_flow with flow_gt and
\* never look at the pyramids.  The pyramid losses are external; with
\* pyramids of different depth they may return a value or raise.
LossOutcomes(loss, pred_levels, gt_levels) ==
    IF loss \in {"L1", "L2"} THEN {"ok"}
    ELSE IF pred_levels = gt_levels THEN {"ok"}
    ELSE {"ok", "raise"}

\* enumerate(zip(flow_pyramid, flow_gt_pyramid)): the pairs a summary covers
ZipLen(pred_levels, gt_levels) == Min2(pred_levels, gt_levels)

Fatal(e) ==
    /\ pc' = "error"
    /\ err' = e

\* One iteration of the training loop, from the iterator reset to the log.
TrainStep ==
    /\ pc = "running"
    /\ LoopContinues(step, args.total_step)
    /\ \E size \in 1..args.batch_size, outcome \in {"ok", "raise"} :
       LET reset == NeedsReset(step, iter_per_epoch)
           delivered == IF reset THEN 0 ELSE data_iter
           gt == BuildPyramid(args.crop_shape, args.num_levels)
       IN
       /\ iterations' = iterations + 1
       /\ retired' = IF reset THEN retired \cup {data_iter} ELSE retired
       /\ IF delivered >= iter_per_epoch
          THEN \* next(data_iter) on an exhausted iterator
               /\ Fatal("StopIteration")
               /\ outcome = "ok"
               /\ data_iter' = delivered
               /\ UNCHANGED <<step, batch, forwards, updates, skipped, summaries,
                              checkpoints, flow_gt_pyramid>>
          ELSE
          /\ data_iter' = delivered + 1
          /\ batch' = size
          /\ IF BatchGate(size, args.batch_size)
             THEN \* continue
                  /\ outcome = "ok"
                  /\ skipped' = skipped + 1
                  /\ step' = step + 1
                  /\ UNCHANGED <<pc, err, forwards, updates, summaries,
                                 checkpoints, flow_gt_pyramid>>
             ELSE IF ~gt.ok
             THEN /\ Fatal("RuntimeError")
                  /\ outcome = "ok"
                  /\ UNCHANGED <<step, forwards, updates, skipped, summaries,
                                 checkpoints, flow_gt_pyramid>>
             ELSE
             /\ flow_gt_pyramid' = gt.levels
             /\ forwards' = forwards + 1
             /\ outcome \in LossOutcomes(args.loss, model_levels, Len(gt.levels))
             /\ IF outcome = "raise"
                THEN /\ Fatal("LossError")
                     /\ UNCHANGED <<step, updates, skipped, summaries, checkpoints>>
                ELSE
                /\ updates' = updates + 1
                /\ summaries' =
                     IF step % args.summary_interval = 0
                     THEN summaries \cup {<<step, ZipLen(model_levels, Len(gt.levels))>>}
                     ELSE summaries
                /\ checkpoints' =
                     IF step % args.checkpoint_interval = 0
                     THEN checkpoints \cup {step}
                     ELSE checkpoints
                /\ step' = step + 1
                /\ UNCHANGED <<pc, err, skipped>>
    /\ UNCHANGED <<args, iter_per_epoch, model_levels, predVars>>

\* range(1, total_step + 1) is exhausted: train() returns
LoopExit ==
    /\ pc = "running"
    /\ ~LoopContinues(step, args.total_step)
    /\ pc' = "done"
    /\ UNCHANGED <<err, args, iter_per_epoch, model_levels, forwards, trainVars, predVars>>

\* -------------------------------------------------------------- pred()
\* pred(), up to the crop: model, checkpoint, the two images
PredLoad ==
    /\ pc = "pred"
    /\ pc' = "pred_loaded"
    /\ UNCHANGED <<err, args, iter_per_epoch, model_levels, forwards, trainVars, predVars>>

\* Python's index normalisation of a slice bound on an axis of length n
SliceBound(i, n) == IF i < 0 THEN Max2(i + n, 0) ELSE Min2(i, n)

\* a[start:stop] on an axis of length n: <<first index, number of elements>>
Slice(start, stop, n) ==
    LET s == SliceBound(start, n)
        e == SliceBound(stop, n)
    IN <<s, Max2(e - s, 0)>>

\* (self.h-self.th)//2
CropStart(d, t) == (d - t) \div 2

\* (self.h+self.th)//2
CropStop_Mirror(d, t) == d - ((d - t) \div 2)

CropStop(d, t) == (d + t) \div 2

\* StaticCenterCrop.__init__(image_size, crop_size)
StaticCenterCrop(image_size, crop_size) ==
    [th |-> crop_size[1], tw |-> crop_size[2], h |-> image_size[1], w |-> image_size[2]]

\* StaticCenterCrop.__call__(img): [row0, col0, rows, cols] of the region
CenterCrop(c, img) ==
    LET r == Slice(CropStart(c.h, c.th), CropStop(c.h, c.th), img[1])
        q == Slice(CropStart(c.w, c.tw), CropStop(c.w, c.tw), img[2])
    IN [row0 |-> r[1], col0 |-> q[1], rows |-> r[2], cols |-> q[2]]

NoShape == <<0, 0>>

NoCropper == [th |-> 0, tw |-> 0, h |-> 0, w |-> 0]

Whole(img) == [row0 |-> 0, col0 |-> 0, rows |-> img[1], cols |-> img[2]]

\* `if args.crop_shape is not None:` and the two calls of the cropper
PredCrop ==
    /\ pc = "pred_loaded"
    /\ IF ~args.has_dataflow_args
       THEN \* the pred subparser defines no crop_shape
            /\ Fatal("AttributeError")
            /\ UNCHANGED <<cropper, crops>>
       ELSE IF args.crop_shape # NoShape
       THEN LET c == StaticCenterCrop(images.src, args.crop_shape) IN
            /\ cropper' = c
            /\ crops' = [src |-> CenterCrop(c, images.src),
                         tgt |-> CenterCrop(c, images.tgt)]
            /\ pc' = "pred_cropped"
            /\ err' = ""
       ELSE /\ crops' = [src |-> Whole(images.src), tgt |-> Whole(images.tgt)]
            /\ pc' = "pred_cropped"
            /\ err' = ""
            /\ UNCHANGED cropper
    /\ UNCHANGED <<args, iter_per_epoch, model_levels, forwards, trainVars,
                   images, resized_by>>

\* The resize branch taken: resize_shape first, resize_scale only elif
ResizeBranch(a) ==
    IF a.resize_shape # None THEN "shape"
    ELSE IF a.resize_scale # None THEN "scale"
    ELSE None

\* cv2.resize is external: it returns the resized image or raises
PredResize ==
    /\ pc = "pred_cropped"
    /\ resized_by' = ResizeBranch(args)
    /\ \E o \in {"ok", "raise"} :
         IF o = "raise"
         THEN /\ ResizeBranch(args) # None
              /\ Fatal("cv2.error")
         ELSE /\ pc' = "pred_resized"
              /\ err' = ""
    /\ UNCHANGED <<args, iter_per_epoch, model_levels, forwards, trainVars,
                   images, cropper, crops>>

\* Forward Pass, flow = flow_pyramid[-1], save_flow, imwrite, show
PredForward ==
    /\ pc = "pred_resized"
    /\ forwards' = forwards + 1
    /\ pc' = "pred_done"
    /\ UNCHANGED <<err, args, iter_per_epoch, model_levels, trainVars, predVars>>

\* ------------------------------------------------------ initial states
Idle ==
    /\ err = ""
    /\ step = 1
    /\ iterations = 0
    /\ data_iter = 0
    /\ retired = {}
    /\ batch = 0
    /\ forwards = 0
    /\ updates = 0
    /\ skipped = 0
    /\ summaries = {}
    /\ checkpoints = {}
    /\ flow_gt_pyramid = <<>>
    /\ cropper = NoCropper
    /\ crops = [src |-> Whole(NoShape), tgt |-> Whole(NoShape)]
    /\ resized_by = None

\* the namespace when nothing but the mode is given
BaseArgs ==
    [subparser_name |-> None, has_dataflow_args |-> FALSE,
     weights_len |-> 1, lv_chs_len |-> 1, num_levels |-> 1,
     dataset |-> None, input |-> None, load |-> None,
     resize_shape |-> None, resize_scale |-> None, crop_shape |-> <<4, 4>>,
     total_step |-> 1, batch_size |-> 1, checkpoint_interval |-> 1,
     summary_interval |-> 1, loss |-> "L2"]

\* `train` with every combination of the options the argument check and
\* the dataset constructor read
TrainCommandLines ==
    {[BaseArgs EXCEPT !.subparser_name = "train", !.has_dataflow_args = TRUE,
                      !.weights_len = wl, !.lv_chs_len = cl, !.num_levels = nl,
                      !.dataset = ds, !.resize_shape = rs, !.resize_scale = sc] :
        wl \in 1..MaxLevels, cl \in 1..MaxLevels, nl \in 1..MaxLevels,
        ds \in Datasets, rs \in {None, "set"}, sc \in {None, "set"}}

\* `pred`, `eval` and no mode, with and without --input and --load
OtherCommandLines ==
    {[BaseArgs EXCEPT !.subparser_name = m, !.input = i, !.load = l] :
        m \in {"pred", "eval"}, i \in {None, "given"}, l \in {None, "given"}}
    \cup {BaseArgs}

\* valid `train` command lines over the options the training loop reads
TrainRuns ==
    {[BaseArgs EXCEPT !.subparser_name = "train", !.has_dataflow_args = TRUE,
                      !.weights_len = nl, !.lv_chs_len = nl, !.num_levels = nl,
                      !.dataset = "FlyingChairs", !.crop_shape = cs,
                      !.total_step = ts, !.batch_size = bs,
                      !.checkpoint_interval = ci, !.summary_interval = si,
                      !.loss = lo] :
        nl \in 1..MaxLevels, cs \in FlowShapes, ts \in 0..MaxSteps,
        bs \in 1..MaxBatch, ci \in 1..MaxInterval, si \in 1..MaxInterval,
        lo \in LossModes}

Init ==
    /\ pc = "main"
    /\ Idle
    /\ images = [src |-> <<4, 4>>, tgt |-> <<4, 4>>]
    /\ \/ /\ args \in TrainCommandLines \cup OtherCommandLines
          /\ iter_per_epoch = 1
          /\ model_levels = args.num_levels
       \/ /\ args \in TrainRuns
          /\ iter_per_epoch \in 1..MaxEpochLen
          /\ model_levels \in 1..MaxLevels

Next ==
    \/ Main
    \/ TrainEnter
    \/ TrainStep
    \/ LoopExit
    \/ PredLoad
    \/ PredCrop

Spec == Init /\ [][Next]_vars

\* pred(args) called with a namespace that carries the crop and resize options
PredCalls ==
    {[BaseArgs EXCEPT !.subparser_name = "pred", !.has_dataflow_args = TRUE,
                      !.input = "given", !.load = "given",
                      !.crop_shape = cs, !.resize_shape = rs, !.resize_scale = sc] :
        cs \in {NoShape} \cup ((1..MaxDim) \X (1..MaxDim)),
        rs \in {None, "set"}, sc \in {None, "set"}}

PredInit ==
    /\ pc = "pred"
    /\ Idle
    /\ args \in PredCalls
    /\ images \in [src : (1..MaxDim) \X (1..MaxDim), tgt : (1..MaxDim) \X (1..MaxDim)]
    /\ iter_per_epoch = 1
    /\ model_levels = 1

PredNext ==
    \/ PredLoad
    \/ PredCrop
    \/ PredResize
    \/ PredForward

PredSpec == PredInit /\ [][PredNext]_vars

\* The pyramid builder on its own: flow fields of every small shape
PyramidCalls ==
    {[BaseArgs EXCEPT !.subparser_name = "train", !.has_dataflow_args = TRUE,
                      !.dataset = "FlyingChairs", !.crop_shape = <<h, w>>,
                      !.weights_len = n, !.lv_chs_len = n, !.num_levels = n] :
        h \in 1..MaxFlowDim, w \in 1..MaxFlowDim, n \in 1..MaxLevels}

PyramidInit ==
    /\ pc = "pyramid"
    /\ Idle
    /\ args \in PyramidCalls
    /\ images = [src |-> NoShape, tgt |-> NoShape]
    /\ iter_per_epoch = 1
    /\ model_levels = args.num_levels

\* Build Groundtruth Pyramid, applied to one flow_gt
BuildGt ==
    /\ pc = "pyramid"
    /\ LET gt == BuildPyramid(args.crop_shape, args.num_levels) IN
       IF gt.ok
       THEN /\ flow_gt_pyramid' = gt.levels
            /\ pc' = "pyramid_built"
            /\ err' = ""
       ELSE /\ Fatal("RuntimeError")
            /\ UNCHANGED flow_gt_pyramid
    /\ UNCHANGED <<args, iter_per_epoch, model_levels, forwards, step, iterations,
                   data_iter, retired, batch, updates, skipped, summaries,
                   checkpoints, predVars>>

PyramidNext == BuildGt

PyramidSpec == PyramidInit /\ [][PyramidNext]_vars

\* ================================================================ claims

RECURSIVE Pow2(_)
Pow2(n) == IF n = 0 THEN 1 ELSE 2 * Pow2(n - 1)

\* C1: a batch whose sample count differs from args.batch_size triggers no
\* forward pass and no optimizer update: in every step that pulls such a
\* batch the number of forward passes and of optimizer updates stays as it was.
C1_BatchGate ==
    [][batch' # args.batch_size => (updates' = updates /\ forwards' = forwards)]_vars

\* a mismatched batch was pulled, and discarded, after an update had been made
C1_Witness ==
    /\ batch > 0
    /\ batch # args.batch_size
    /\ skipped > 0
    /\ updates > 0

\* C2: when the model's pyramid has another depth than the ground-truth
\* pyramid (num_levels), the step ends in an error: no optimizer update is
\* made and nothing is reported.
C2_DepthMismatchIsError ==
    model_levels # args.num_levels => (updates = 0 /\ summaries = {})

C4_ReplacedIteratorExhausted ==
    \A d \in retired : d = iter_per_epoch

C5_Accounting ==
    /\ pc \in {"running", "done"} =>
          /\ step \in 1..(args.total_step + 1)
          /\ iterations = step - 1
          /\ updates = iterations - skipped
    /\ pc = "done" => iterations = args.total_step
    /\ pc = "running" => ENABLED (TrainStep \/ LoopExit)

C5_Iteration ==
    /\ (pc = "running" /\ pc' = "running") =>
          /\ step' = step + 1
          /\ iterations' = iterations + 1
          /\ updates' + skipped' = updates + skipped + 1
    /\ (pc = "running" /\ pc' = "done") =>
          /\ step = args.total_step + 1
          /\ iterations' = iterations

\* C5: the loop runs its body for step = 1..total_step in order, one
\* iteration per step whether the batch is used or discarded, and returns
\* after exactly total_step iterations with
\* updates = total_step - discarded batches.  (A run that a fatal error of a
\* step ends does not come to Done.)
C5_LoopRunsTotalStep ==
    []C5_Accounting /\ [][C5_Iteration]_vars

\* the loop has returned after discarding some batches and using others
C5_Witness ==
    /\ pc = "done"
    /\ args.total_step >= 3
    /\ skipped > 0
    /\ updates > 0

\* C6: at termination the checkpoint keys are exactly the multiples of
\* checkpoint_interval in 1..total_step.
C6_CheckpointEveryInterval ==
    pc = "done" =>
        checkpoints = {s \in 1..args.total_step : s % args.checkpoint_interval = 0}

\* C7: with both a resize shape and a resize scale configured, no training
\* step and no inference forward pass executes and no resize is done.
C7_BothResizeRejected ==
    (args.resize_shape # None /\ args.resize_scale # None) =>
        (iterations = 0 /\ forwards = 0 /\ resized_by = None)

\* the arguments the selected mode needs
RequiredPresent(a) ==
    IF a.subparser_name = "train"
    THEN a.weights_len = a.lv_chs_len /\ a.lv_chs_len = a.num_levels
         /\ a.dataset \in ValidDatasets
    ELSE IF a.subparser_name = "pred" THEN a.input # None /\ a.load # None
    ELSE IF a.subparser_name = "eval" THEN a.load # None
    ELSE FALSE

\* C8: main ends in a startup error exactly when no mode is selected or a
\* required argument of the selected mode is missing; train, pred and eval
\* with their required arguments are dispatched.
C8_ModeValidation ==
    pc # "main" =>
        (pc = "startup_error" <=> (args.subparser_name = None \/ ~RequiredPresent(args)))

\* C9: for a crop (th, tw) of an h x w source image with th <= h and tw <= w,
\* the region starts at ((h - th) div 2, (w - tw) div 2) and is th rows by
\* tw columns, and the target frame is cut with the same offsets (the same
\* region when it has the source's size).
C9_CenterCrop ==
    LET h == images.src[1]
        w == images.src[2]
        th == args.crop_shape[1]
        tw == args.crop_shape[2]
    IN
    (cropper # NoCropper /\ th <= h /\ tw <= w) =>
        /\ crops.src = [row0 |-> (h - th) \div 2, col0 |-> (w - tw) \div 2,
                        rows |-> th, cols |-> tw]
        /\ crops.tgt.row0 = Min2(crops.src.row0, images.tgt[1])
        /\ crops.tgt.col0 = Min2(crops.src.col0, images.tgt[2])
        /\ images.tgt = images.src => crops.tgt = crops.src

\* both frames were cropped with odd margins on both axes
C9_Witness ==
    /\ pc = "pred_done"
    /\ cropper # NoCropper
    /\ images.tgt = images.src
    /\ args.crop_shape[1] < images.src[1]
    /\ args.crop_shape[2] <= images.src[2]
    /\ (images.src[1] - args.crop_shape[1]) % 2 = 1
    /\ (images.src[2] - args.crop_shape[2]) % 2 = 1

\* C10: the batch pull never happens on an exhausted iterator: no iterator
\* delivers more than iterations_per_epoch batches.
C10_PullNeverFails ==
    /\ err # "StopIteration"
    /\ data_iter <= iter_per_epoch

\* an iterator was replaced, and its successor has delivered a full epoch
C10_Witness ==
    /\ pc = "running"
    /\ iter_per_epoch >= 2
    /\ retired # {}
    /\ data_iter = iter_per_epoch

====
